---- MODULE Spec2Model ----
(***************************************************************************)
(* A model of main.py of Touhou-Calendar: the loader (parse_event,         *)
(* load_events), the ICS text utilities (ics_escape, ics_fold_line), the   *)
(* UID generator, the VEVENT and calendar builders, and main.              *)
(*                                                                         *)
(* A Python str is a sequence of code points (naturals), a bytes object a  *)
(* sequence of octets 0..255.  Sequences are 1-based here and 0-based in   *)
(* Python: Python's encoded[i] is encoded[i + 1] below.                    *)
(***************************************************************************)
EXTENDS Integers, Sequences, FiniteSets, Bags, TLC

VARIABLES
    \* ics_fold_line
    line,       \* the argument (str)
    encoded,    \* the local `encoded` (bytes still to be cut)
    split_at,   \* the local `split_at`
    result,     \* the local `result` (list of str chunks)
    folded,     \* the returned str
    fpc,        \* position in ics_fold_line
    \* ics_escape
    escape_arg, \* the argument ics_escape was called with
    text,       \* the local `text`, reassigned by each replace
    step,       \* how many of the four replacements have run
    escaped,    \* the returned str
    \* main
    pc,          \* position in main
    month_num,   \* load_events' loop variable
    blocks,      \* every non-empty block read so far, in reading order
    events,      \* load_events' list, then main's `events`
    uids,        \* the uid of each build_vevent call, in call order
    ics_content, \* main's `ics_content`
    file,        \* the contents of OUTPUT_FILE
    error        \* the exception that ended the run

foldVars == <<line, encoded, split_at, result, folded, fpc>>
escVars == <<escape_arg, text, step, escaped>>
mainVars == <<pc, month_num, blocks, events, uids, ics_content, file, error>>
vars == <<foldVars, escVars, mainVars>>

----------------------------------------------------------------------------
(* Bounds of the checked inputs                                            *)

\* ics_fold_line inputs: Pad(pre) \o mid \o Pad(tail) \o mid, where pre is
\* within Window of the fold limit, mid has at most MaxMid arbitrary
\* characters, and tail is at most Window or near the limit (so that the
\* second mid lies across the second cut).
Window == 3
MaxMid == 2

\* ics_escape inputs: texts of at most MaxText characters
MaxText == 4

\* main inputs: at most MaxBlocks non-empty blocks in all sources together,
\* and no source longer than the blocks still allowed
MaxBlocks == 3

----------------------------------------------------------------------------
(* Text helpers                                                            *)

\* The value of a str variable that is not yet assigned: no str (no code
\* point is negative)
Unset == <<-1>>

\* "".join(ss), by halves (the evaluation stays shallow on long inputs)
RECURSIVE Concat(_)
Concat(ss) ==
    IF ss = <<>> THEN <<>>
    ELSE IF Len(ss) = 1 THEN ss[1]
    ELSE LET h == Len(ss) \div 2 IN
         Concat(SubSeq(ss, 1, h)) \o Concat(SubSeq(ss, h + 1, Len(ss)))

\* sep.join(parts)
RECURSIVE Join(_, _)
Join(parts, sep) ==
    IF parts = <<>> THEN <<>>
    ELSE IF Len(parts) = 1 THEN parts[1]
    ELSE parts[1] \o sep \o Join(Tail(parts), sep)

\* Sequences over S of length at most n
SeqsUpTo(S, n) == UNION {[1..k -> S] : k \in 0..n}

Pad(n) == [i \in 1..n |-> 97]          \* "a" * n

CRLF == <<13, 10>>
FoldMarker == <<13, 10, 32>>           \* "\r\n "

\* str.encode("utf-8") of one code point
EncodeChar(cp) ==
    IF cp < 128 THEN <<cp>>
    ELSE IF cp < 2048 THEN <<192 + (cp \div 64), 128 + (cp % 64)>>
    ELSE IF cp < 65536 THEN
        <<224 + (cp \div 4096), 128 + ((cp \div 64) % 64), 128 + (cp % 64)>>
    ELSE <<240 + (cp \div 262144), 128 + ((cp \div 4096) % 64),
           128 + ((cp \div 64) % 64), 128 + (cp % 64)>>

EncodeUtf8(s) == Concat([i \in 1..Len(s) |-> EncodeChar(s[i])])

\* (b & 0xC0) == 0x80
IsContinuation(b) == (b \div 64) = 2

\* The outcome of a decode that raises UnicodeDecodeError: no str
DecodeError == <<-2>>

\* Number of octets announced by a lead octet (0: not a lead octet)
LeadWidth(b) ==
    IF b < 128 THEN 1
    ELSE IF b >= 194 /\ b < 224 THEN 2
    ELSE IF b >= 224 /\ b < 240 THEN 3
    ELSE IF b >= 240 /\ b < 245 THEN 4
    ELSE 0

\* One code point from exactly the octets bs, or DecodeError
DecodeChar(bs) ==
    LET w == LeadWidth(bs[1]) IN
    IF w = 0 \/ w # Len(bs) THEN DecodeError
    ELSE IF \E k \in 2..w : ~IsContinuation(bs[k]) THEN DecodeError
    ELSE IF w = 1 THEN <<bs[1]>>
    ELSE IF w = 2 THEN <<(bs[1] - 192) * 64 + (bs[2] - 128)>>
    ELSE IF w = 3 THEN <<(bs[1] - 224) * 4096 + (bs[2] - 128) * 64 + (bs[3] - 128)>>
    ELSE <<(bs[1] - 240) * 262144 + (bs[2] - 128) * 4096
           + (bs[3] - 128) * 64 + (bs[4] - 128)>>

Max(S) == CHOOSE x \in S : \A y \in S : x >= y
Min(S) == CHOOSE x \in S : \A y \in S : x <= y

\* bytes.decode("utf-8"), strict: the str, or DecodeError.  The octets are
\* split at a lead octet next to the middle and each part is decoded; a
\* well-formed sequence has no four continuation octets in a row, and a
\* part without an inner lead octet is one code point.
RECURSIVE DecodeUtf8(_)
DecodeUtf8(bs) ==
    IF bs = <<>> THEN <<>>
    ELSE LET m == (Len(bs) \div 2) + 1
             near == {j \in (m - 3)..(m + 3) : j > 1 /\ j <= Len(bs)}
             leads == {j \in near : ~IsContinuation(bs[j])}
         IN IF leads = {}
            THEN (IF Len(bs) <= 4 THEN DecodeChar(bs) ELSE DecodeError)
            ELSE LET after == {j \in leads : j >= m}
                     p == IF after # {} THEN Min(after) ELSE Max(leads)
                     l == DecodeUtf8(SubSeq(bs, 1, p - 1))
                     r == DecodeUtf8(SubSeq(bs, p, Len(bs)))
                 IN IF l = DecodeError \/ r = DecodeError THEN DecodeError
                    ELSE l \o r

----------------------------------------------------------------------------
(* ics_escape                                                              *)

\* text.replace(old, new) for a one-character old: every occurrence, left
\* to right
Replace(s, old, new) ==
    Concat([i \in 1..Len(s) |-> IF s[i] = old THEN new ELSE <<s[i]>>])

\* Lines 63-66, in order: backslash, ";", ",", newline (and, for
\* comparison, the order with the backslash last)
ReplacementsBackslashLast ==
    << [old |-> 59, new |-> <<92, 59>>],
       [old |-> 44, new |-> <<92, 44>>],
       [old |-> 10, new |-> <<92, 110>>],
       [old |-> 92, new |-> <<92, 92>>] >>
Replacements ==
    << [old |-> 92, new |-> <<92, 92>>],
       [old |-> 59, new |-> <<92, 59>>],
       [old |-> 44, new |-> <<92, 44>>],
       [old |-> 10, new |-> <<92, 110>>] >>

RECURSIVE ReplaceAll(_, _)
ReplaceAll(s, reps) ==
    IF reps = <<>> THEN s
    ELSE ReplaceAll(Replace(s, Head(reps).old, Head(reps).new), Tail(reps))

ics_escape(s) == ReplaceAll(s, Replacements)

\* Characters the checked texts are made of: backslash, ";", ",", newline,
\* "n" and "a"
EscapeAlphabet == {92, 59, 44, 10, 110, 97}

\* One of lines 63-66
EscapeReplace ==
    /\ step < Len(Replacements)
    /\ escaped = Unset
    /\ step' = step + 1
    /\ text' = Replace(text, Replacements[step'].old, Replacements[step'].new)
    /\ UNCHANGED <<escape_arg, escaped>>
    /\ UNCHANGED <<foldVars, mainVars>>

\* Line 67
EscapeReturn ==
    /\ step = Len(Replacements)
    /\ escaped = Unset
    /\ escaped' = text
    /\ UNCHANGED <<escape_arg, text, step>>
    /\ UNCHANGED <<foldVars, mainVars>>

EscapeNext == EscapeReplace \/ EscapeReturn

----------------------------------------------------------------------------
(* ics_fold_line                                                           *)

FoldLimit == 75

\* Line 79: the inner loop's condition, for Python index `at` into buf.
\* Reading buf[at] outside the buffer raises IndexError.
IndexInside(buf, at) == at < Len(buf)

\* (two variants for comparison: without the inner loop, and with the mask
\* 0x80, which also takes lead octets for continuation octets)
RetreatCondNever(buf, at) == FALSE
RetreatCondMask80(buf, at) == at > 0 /\ buf[at + 1] >= 128
RetreatCond(buf, at) == at > 0 /\ IsContinuation(buf[at + 1])

\* Characters the checked lines are made of: "a", U+00E9 (2 octets),
\* U+6771 (3 octets), U+1F600 (4 octets).
FoldAlphabet == {97, 233, 26481, 128512}

FoldInputs ==
    {Pad(pre) \o mid \o Pad(tail) \o mid :
        pre \in (FoldLimit - Window)..(FoldLimit + 1),
        mid \in SeqsUpTo(FoldAlphabet, MaxMid),
        tail \in (0..Window) \cup ((FoldLimit - 3 * Window)..(FoldLimit + Window))}

\* Lines 72-75
FoldStart ==
    /\ fpc = "start"
    /\ encoded' = EncodeUtf8(line)
    /\ IF Len(encoded') <= FoldLimit
       THEN folded' = line /\ fpc' = "done"
       ELSE folded' = folded /\ fpc' = "while"
    /\ UNCHANGED <<line, split_at, result>>
    /\ UNCHANGED <<escVars, mainVars>>

\* Lines 76-78: the outer loop's test, and split_at = 75
FoldEnter ==
    /\ fpc = "while"
    /\ Len(encoded) > FoldLimit
    /\ split_at' = FoldLimit
    /\ fpc' = "retreat"
    /\ UNCHANGED <<line, encoded, result, folded>>
    /\ UNCHANGED <<escVars, mainVars>>

\* Lines 79-80: one iteration of the inner loop
FoldRetreat ==
    /\ fpc = "retreat"
    /\ IF split_at > 0 /\ ~IndexInside(encoded, split_at)
       THEN fpc' = "IndexError" /\ split_at' = split_at
       ELSE /\ RetreatCond(encoded, split_at)
            /\ split_at' = split_at - 1
            /\ fpc' = fpc
    /\ UNCHANGED <<line, encoded, result, folded>>
    /\ UNCHANGED <<escVars, mainVars>>

\* Lines 81-82: the inner loop has ended; cut the chunk off
FoldCut ==
    /\ fpc = "retreat"
    /\ split_at > 0 => IndexInside(encoded, split_at)
    /\ ~RetreatCond(encoded, split_at)
    /\ LET chunk == DecodeUtf8(SubSeq(encoded, 1, split_at)) IN
        IF chunk = DecodeError
        THEN fpc' = "UnicodeDecodeError" /\ UNCHANGED <<encoded, result>>
        ELSE /\ result' = Append(result, chunk)
             /\ encoded' = SubSeq(encoded, split_at + 1, Len(encoded))
             \* with split_at = 0 the buffer never shrinks: the loop spins
             /\ fpc' = IF split_at = 0 THEN "spin" ELSE "while"
    /\ UNCHANGED <<line, split_at, folded>>
    /\ UNCHANGED <<escVars, mainVars>>

\* Lines 83-84: the outer loop has ended
FoldFinish ==
    /\ fpc = "while"
    /\ Len(encoded) <= FoldLimit
    /\ LET last == DecodeUtf8(encoded) IN
        IF last = DecodeError
        THEN fpc' = "UnicodeDecodeError" /\ UNCHANGED <<result, folded>>
        ELSE /\ result' = Append(result, last)
             /\ folded' = Join(result', FoldMarker)
             /\ fpc' = "done"
    /\ UNCHANGED <<line, encoded, split_at>>
    /\ UNCHANGED <<escVars, mainVars>>

FoldNext == FoldStart \/ FoldEnter \/ FoldRetreat \/ FoldCut \/ FoldFinish

\* ics_fold_line as a function (lines 70-84), as build_vevent calls it
RECURSIVE SplitPoint(_, _)
SplitPoint(buf, at) == IF RetreatCond(buf, at) THEN SplitPoint(buf, at - 1) ELSE at

RECURSIVE FoldChunks(_)
FoldChunks(buf) ==
    IF Len(buf) <= FoldLimit THEN <<DecodeUtf8(buf)>>
    ELSE LET s == SplitPoint(buf, FoldLimit) IN
         IF s = 0 THEN <<DecodeError>>      \* the loop would spin
         ELSE <<DecodeUtf8(SubSeq(buf, 1, s))>> \o FoldChunks(SubSeq(buf, s + 1, Len(buf)))

ics_fold_line(l) ==
    LET e == EncodeUtf8(l) IN
    IF Len(e) <= FoldLimit THEN l ELSE Join(FoldChunks(e), FoldMarker)

\* The actions above and the function compute the same result
FoldAgrees == fpc = "done" => folded = ics_fold_line(line)

----------------------------------------------------------------------------
(* YAML values and the event record                                        *)

\* A value of a parsed YAML document, tagged with its Python type
IntVal(n) == [t |-> "int", v |-> n]
StrVal(cs) == [t |-> "str", v |-> cs]
ListVal(xs) == [t |-> "list", v |-> xs]
None == [t |-> "none"]

IsInt(x) == x.t = "int"
\* isinstance(x, list)
IsList(x) == x.t = "list"
\* bool(x)
Truthy(x) ==
    IF x.t = "none" THEN FALSE
    ELSE IF x.t = "int" THEN x.v # 0
    ELSE x.v # <<>>

\* doc.get(key)
Get(doc, key) == IF key \in DOMAIN doc THEN doc[key] ELSE None

RequiredKeys == {"month", "day", "name", "message", "explanation"}

\* Lines 36-41: doc[key] raises KeyError when a required key is absent
ParseRaises(doc) == ~(RequiredKeys \subseteq DOMAIN doc)

\* Lines 27-45, for a doc that has the required keys
parse_event(doc) ==
    [month |-> doc["month"],
     day |-> doc["day"],
     name |-> doc["name"],
     message |-> doc["message"],
     explanation |-> doc["explanation"],
     explanation_short |-> Get(doc, "explanation_short"),
     characters |-> IF IsList(Get(doc, "characters"))
                    THEN Get(doc, "characters").v ELSE <<>>,
     citations |-> IF IsList(Get(doc, "citations"))
                   THEN Get(doc, "citations").v ELSE <<>>]

----------------------------------------------------------------------------
(* load_events: ordering                                                   *)

\* a < b on str: code point by code point
RECURSIVE StrLess(_, _)
StrLess(a, b) ==
    IF b = <<>> THEN FALSE
    ELSE IF a = <<>> THEN TRUE
    ELSE IF Head(a) # Head(b) THEN Head(a) < Head(b)
    ELSE StrLess(Tail(a), Tail(b))

\* a < b on values of one type
ValLess(a, b) == IF a.t = "int" THEN a.v < b.v ELSE StrLess(a.v, b.v)

\* Comparing two keys raises TypeError when the first components that
\* differ are of different types (int < str)
KeyCompareRaises(k1, k2) ==
    LET diff == {i \in DOMAIN k1 : k1[i] # k2[i]} IN
    diff # {} /\ k1[Min(diff)].t # k2[Min(diff)].t

\* k1 < k2 on tuples, for keys whose comparison does not raise
KeyLess(k1, k2) ==
    LET diff == {i \in DOMAIN k1 : k1[i] # k2[i]} IN
    diff # {} /\ ValLess(k1[Min(diff)], k2[Min(diff)])

\* Line 57: the sort key (and, for comparison, the key without the name)
SortKeyWithoutName(e) == <<e.month, e.day>>
SortKey(e) == <<e.month, e.day, e.name>>

\* A comparison sort compares the two members of every adjacent pair of its
\* result, so it raises when two keys of the list cannot be compared.
SortRaises(es) ==
    \E i, j \in DOMAIN es : KeyCompareRaises(SortKey(es[i]), SortKey(es[j]))

\* list.sort(key=...): stable, so an element is placed after those whose
\* key is not greater
RECURSIVE InsertSorted(_, _)
InsertSorted(e, sorted) ==
    IF sorted = <<>> THEN <<e>>
    ELSE IF KeyLess(SortKey(e), SortKey(Head(sorted))) THEN <<e>> \o sorted
    ELSE <<Head(sorted)>> \o InsertSorted(e, Tail(sorted))

RECURSIVE SortEvents(_)
SortEvents(es) ==
    IF es = <<>> THEN <<>>
    ELSE InsertSorted(es[Len(es)], SortEvents(SubSeq(es, 1, Len(es) - 1)))

----------------------------------------------------------------------------
(* Literals                                                                *)

\* "BEGIN:VEVENT"
BEGIN_VEVENT == <<66, 69, 71, 73, 78, 58, 86, 69, 86, 69, 78, 84>>

\* "UID:"
UID_ == <<85, 73, 68, 58>>

\* "DTSTART;VALUE=DATE:"
DTSTART_ == <<68, 84, 83, 84, 65, 82, 84, 59, 86, 65, 76, 85, 69, 61, 68,
    65, 84, 69, 58>>

\* "SUMMARY:"
SUMMARY_ == <<83, 85, 77, 77, 65, 82, 89, 58>>

\* "DESCRIPTION:"
DESCRIPTION_ == <<68, 69, 83, 67, 82, 73, 80, 84, 73, 79, 78, 58>>

\* "RRULE:FREQ=YEARLY"
RRULE_YEARLY == <<82, 82, 85, 76, 69, 58, 70, 82, 69, 81, 61, 89, 69, 65,
    82, 76, 89>>

\* "TRANSP:TRANSPARENT"
TRANSP_TRANSPARENT == <<84, 82, 65, 78, 83, 80, 58, 84, 82, 65, 78, 83, 80,
    65, 82, 69, 78, 84>>

\* "END:VEVENT"
END_VEVENT == <<69, 78, 68, 58, 86, 69, 86, 69, 78, 84>>

\* "BEGIN:VCALENDAR"
BEGIN_VCALENDAR == <<66, 69, 71, 73, 78, 58, 86, 67, 65, 76, 69, 78, 68,
    65, 82>>

\* "VERSION:2.0"
VERSION_2_0 == <<86, 69, 82, 83, 73, 79, 78, 58, 50, 46, 48>>

\* "PRODID:-//Touhou Calendar//Touhou Calendar//EN"
PRODID_ == <<80, 82, 79, 68, 73, 68, 58, 45, 47, 47, 84, 111, 117, 104,
    111, 117, 32, 67, 97, 108, 101, 110, 100, 97, 114, 47, 47, 84, 111,
    117, 104, 111, 117, 32, 67, 97, 108, 101, 110, 100, 97, 114, 47, 47,
    69, 78>>

\* "CALSCALE:GREGORIAN"
CALSCALE_GREGORIAN == <<67, 65, 76, 83, 67, 65, 76, 69, 58, 71, 82, 69, 71,
    79, 82, 73, 65, 78>>

\* "METHOD:PUBLISH"
METHOD_PUBLISH == <<77, 69, 84, 72, 79, 68, 58, 80, 85, 66, 76, 73, 83,
    72>>

\* "X-WR-CALNAME:Touhou Calendar"
X_WR_CALNAME == <<88, 45, 87, 82, 45, 67, 65, 76, 78, 65, 77, 69, 58, 84,
    111, 117, 104, 111, 117, 32, 67, 97, 108, 101, 110, 100, 97, 114>>

\* "END:VCALENDAR"
END_VCALENDAR == <<69, 78, 68, 58, 86, 67, 65, 76, 69, 78, 68, 65, 82>>

\* "@touhou-calendar"
UID_DOMAIN == <<64, 116, 111, 117, 104, 111, 117, 45, 99, 97, 108, 101,
    110, 100, 97, 114>>

\* "Characters: "
CHARACTERS_ == <<67, 104, 97, 114, 97, 99, 116, 101, 114, 115, 58, 32>>

\* ", "
COMMA_SPACE == <<44, 32>>

\* "\\n\\n"
DESCRIPTION_SEP == <<92, 110, 92, 110>>

\* "-"
DASH == <<45>>

----------------------------------------------------------------------------
(* generate_uid                                                            *)

REFERENCE_YEAR == 2024

\* str(n) for n >= 0
RECURSIVE Decimal(_)
Decimal(n) == IF n < 10 THEN <<48 + n>> ELSE Decimal(n \div 10) \o <<48 + (n % 10)>>

\* f"{n:02d}" for n >= 0
TwoDigits(n) == IF n < 10 THEN <<48, 48 + n>> ELSE Decimal(n)

HexDigit(d) == IF d < 10 THEN 48 + d ELSE 87 + d

RECURSIVE WeightedSum(_, _, _)
WeightedSum(bs, i, w) ==
    IF i > Len(bs) THEN 0 ELSE (bs[i] * (i + w) + WeightedSum(bs, i + 1, w)) % 65536

\* hashlib.sha256(bs).hexdigest()[:16].  SHA-256 itself is not computed:
\* its place is taken by a digest of the same shape, sixteen hexadecimal
\* digits determined by the octets.  Only that is relied on.
Sha256Hex16(bs) == [j \in 1..16 |-> HexDigit((WeightedSum(bs, 1, j) \div j) % 16)]

\* Lines 87-90 (and, for comparison, a uid that also hashes the message)
generate_uid_with_message(e) ==
    Sha256Hex16(EncodeUtf8(TwoDigits(e.month.v) \o DASH \o TwoDigits(e.day.v)
                           \o DASH \o e.name.v \o e.message.v)) \o UID_DOMAIN
generate_uid(e) ==
    LET unique_string == TwoDigits(e.month.v) \o DASH \o TwoDigits(e.day.v)
                         \o DASH \o e.name.v
    IN Sha256Hex16(EncodeUtf8(unique_string)) \o UID_DOMAIN

----------------------------------------------------------------------------
(* build_vevent and build_ics                                              *)

IsLeap(y) == (y % 4 = 0 /\ y % 100 # 0) \/ y % 400 = 0

DaysInMonth(y, m) ==
    IF m = 2 THEN (IF IsLeap(y) THEN 29 ELSE 28)
    ELSE IF m \in {4, 6, 9, 11} THEN 30
    ELSE 31

\* Line 94: date(y, m, d) raises ValueError unless this holds
ValidDate(y, m, d) == m \in 1..12 /\ d \in 1..DaysInMonth(y, m)

\* Line 95: dt.strftime("%Y%m%d")
FormatDate(y, m, d) == Decimal(y) \o TwoDigits(m) \o TwoDigits(d)

Whitespace == {9, 10, 11, 12, 13, 32}

\* str.strip()
Strip(s) ==
    LET kept == {i \in DOMAIN s : s[i] \notin Whitespace} IN
    IF kept = {} THEN <<>> ELSE SubSeq(s, Min(kept), Max(kept))

\* Lines 97-101
description_parts(e) ==
    LET explanation == IF Truthy(e.explanation_short)
                       THEN e.explanation_short ELSE e.explanation
    IN <<e.message.v, Strip(explanation.v)>>
       \o (IF e.characters # <<>>
           THEN <<CHARACTERS_ \o Join(e.characters, COMMA_SPACE)>>
           ELSE <<>>)

\* Line 102
description(e) ==
    Join([i \in DOMAIN description_parts(e) |->
            ics_escape(Strip(description_parts(e)[i]))], DESCRIPTION_SEP)

\* Lines 107-116
vevent_lines(e) ==
    << BEGIN_VEVENT,
       UID_ \o generate_uid(e),
       DTSTART_ \o FormatDate(REFERENCE_YEAR, e.month.v, e.day.v),
       SUMMARY_ \o ics_escape(e.name.v),
       DESCRIPTION_ \o description(e),
       RRULE_YEARLY,
       TRANSP_TRANSPARENT,
       END_VEVENT >>

\* Lines 93-117, for an event whose date is valid
build_vevent(e) ==
    Join([i \in DOMAIN vevent_lines(e) |-> ics_fold_line(vevent_lines(e)[i])], CRLF)

\* Line 94 raises: TypeError for a month or day that is no int, ValueError
\* for one out of range
BuildVeventRaises(e) ==
    \/ ~IsInt(e.month)
    \/ ~IsInt(e.day)
    \/ ~ValidDate(REFERENCE_YEAR, e.month.v, e.day.v)

HeaderLines ==
    << BEGIN_VCALENDAR, VERSION_2_0, PRODID_, CALSCALE_GREGORIAN,
       METHOD_PUBLISH, X_WR_CALNAME >>

\* Lines 120-131
build_ics(es) ==
    LET header == Join(HeaderLines, CRLF)
        vevents == Join([i \in DOMAIN es |-> build_vevent(es[i])], CRLF)
        footer == END_VCALENDAR
    IN header \o CRLF \o vevents \o CRLF \o footer \o CRLF

----------------------------------------------------------------------------
(* main, load_events                                                       *)

\* range(1, 13)
LastMonth == 12

\* The contents of OUTPUT_FILE before the run: no str the run can write
NotWritten == <<-1>>

Doc(month, day, name, message, explanation) ==
    [month |-> month, day |-> day, name |-> StrVal(name),
     message |-> StrVal(message), explanation |-> StrVal(explanation)]

\* The blocks the checked sources are made of
DocA == Doc(IntVal(1), IntVal(5), <<65>>, <<77>>, <<32, 69, 10>>)
DocZ == Doc(IntVal(1), IntVal(5), <<90>>, <<77>>, <<69>>)
            @@ [explanation_short |-> StrVal(<<83>>),
                characters |-> ListVal(<< <<82>>, <<77>> >>)]
DocB == Doc(IntVal(3), IntVal(1), <<66>>, <<77>>, <<69>>)
            @@ [characters |-> StrVal(<<110, 111>>),
                citations |-> ListVal(<< [url |-> <<117>>] >>)]
\* "Miyako Day" on February 29
DocMiyako == Doc(IntVal(2), IntVal(29),
                 <<77, 105, 121, 97, 107, 111, 32, 68, 97, 121>>, <<77>>, <<69>>)
\* DocA's month, day and name with another message, and an empty
\* explanation_short
DocA2 == Doc(IntVal(1), IntVal(5), <<65>>, <<78>>, <<69>>)
            @@ [explanation_short |-> StrVal(<<>>)]
DocFeb30 == Doc(IntVal(2), IntVal(30), <<88>>, <<77>>, <<69>>)
DocStrMonth == Doc(StrVal(<<120>>), IntVal(1), <<67>>, <<77>>, <<69>>)
DocNoMessage ==
    [month |-> IntVal(4), day |-> IntVal(1), name |-> StrVal(<<68>>),
     explanation |-> StrVal(<<69>>)]

\* None is the empty block yaml.safe_load_all yields for an empty document
Docs == {DocA, DocZ, DocB, DocMiyako, DocA2, DocFeb30, DocStrMonth,
         DocNoMessage, None}

NonEmpty(docs) == SelectSeq(docs, LAMBDA d : d # None)

\* Lines 50-56, one iteration: the source of month_num is opened (it may
\* be missing) and its blocks are parsed in order up to the first that
\* raises.
LoadSource ==
    /\ pc = "load"
    /\ \E present \in BOOLEAN :
        IF ~present
        THEN /\ pc' = "failed"
             /\ error' = "FileNotFoundError"
             /\ UNCHANGED <<month_num, blocks, events>>
        ELSE \E docs \in SeqsUpTo(Docs, MaxBlocks - Len(blocks)) :
            LET read == NonEmpty(docs)
                bad == {i \in DOMAIN read : ParseRaises(read[i])}
            IN IF bad # {}
               THEN /\ blocks' = blocks \o SubSeq(read, 1, Min(bad))
                    /\ events' = events \o
                         [i \in 1..(Min(bad) - 1) |-> parse_event(read[i])]
                    /\ pc' = "failed"
                    /\ error' = "KeyError"
                    /\ UNCHANGED month_num
               ELSE /\ blocks' = blocks \o read
                    /\ events' = events \o
                         [i \in DOMAIN read |-> parse_event(read[i])]
                    /\ month_num' = month_num + 1
                    /\ pc' = IF month_num = LastMonth THEN "sort" ELSE "load"
                    /\ UNCHANGED error
    /\ UNCHANGED <<uids, ics_content, file>>
    /\ UNCHANGED <<foldVars, escVars>>

\* Lines 57-58 and 142
SortLoaded ==
    /\ pc = "sort"
    /\ IF SortRaises(events)
       THEN pc' = "failed" /\ error' = "TypeError" /\ UNCHANGED events
       ELSE pc' = "summary" /\ events' = SortEvents(events) /\ UNCHANGED error
    /\ UNCHANGED <<month_num, blocks, uids, ics_content, file>>
    /\ UNCHANGED <<foldVars, escVars>>

\* Lines 134-138 and 143: the format code 02d raises ValueError for a
\* month or day that is no int
PrintSummary ==
    /\ pc = "summary"
    /\ IF \E i \in DOMAIN events : ~IsInt(events[i].month) \/ ~IsInt(events[i].day)
       THEN pc' = "failed" /\ error' = "ValueError"
       ELSE pc' = "build" /\ UNCHANGED error
    /\ UNCHANGED <<month_num, blocks, events, uids, ics_content, file>>
    /\ UNCHANGED <<foldVars, escVars>>

\* Line 145
BuildIcs ==
    /\ pc = "build"
    /\ IF \E i \in DOMAIN events : BuildVeventRaises(events[i])
       THEN pc' = "failed" /\ error' = "ValueError" /\ UNCHANGED <<uids, ics_content>>
       ELSE /\ uids' = [i \in DOMAIN events |-> generate_uid(events[i])]
            /\ ics_content' = build_ics(events)
            /\ pc' = "write"
            /\ UNCHANGED error
    /\ UNCHANGED <<month_num, blocks, events, file>>
    /\ UNCHANGED <<foldVars, escVars>>

\* Line 146, had main opened the file for writing before loading
WriteOutputOpenedFirst ==
    /\ UNCHANGED <<foldVars, escVars>>
    /\ \/ /\ pc = "load" /\ month_num = 1 /\ file = NotWritten
          /\ file' = <<>>
          /\ UNCHANGED <<pc, month_num, blocks, events, uids, ics_content, error>>
       \/ /\ pc = "write"
          /\ file' = ics_content
          /\ pc' = "done"
          /\ UNCHANGED <<month_num, blocks, events, uids, ics_content, error>>

\* Lines 146-148
WriteOutput ==
    /\ pc = "write"
    /\ file' = ics_content
    /\ pc' = "done"
    /\ UNCHANGED <<month_num, blocks, events, uids, ics_content, error>>
    /\ UNCHANGED <<foldVars, escVars>>

MainNext == LoadSource \/ SortLoaded \/ PrintSummary \/ BuildIcs \/ WriteOutput

----------------------------------------------------------------------------
(* Specifications                                                          *)

\* A run of main.  ics_fold_line and ics_escape run inside BuildIcs; the
\* variables of their step-by-step models stay idle.
Init ==
    /\ pc = "load"
    /\ month_num = 1
    /\ blocks = <<>>
    /\ events = <<>>
    /\ uids = <<>>
    /\ ics_content = Unset
    /\ file = NotWritten
    /\ error = ""
    /\ line = <<>> /\ encoded = <<>> /\ split_at = 0
    /\ result = <<>> /\ folded = Unset /\ fpc = "idle"
    /\ escape_arg = <<>> /\ text = <<>> /\ step = 0 /\ escaped = <<>>

Spec == Init /\ [][MainNext]_vars

\* A call of ics_fold_line
FoldInit ==
    /\ line \in FoldInputs
    /\ encoded = <<>>
    /\ split_at = 0
    /\ result = <<>>
    /\ folded = Unset
    /\ fpc = "start"
    /\ escape_arg = <<>> /\ text = <<>> /\ step = 0 /\ escaped = <<>>
    /\ pc = "idle" /\ month_num = 1 /\ blocks = <<>> /\ events = <<>>
    /\ uids = <<>> /\ ics_content = Unset /\ file = NotWritten /\ error = ""

SpecFold == FoldInit /\ [][FoldNext]_vars

\* A call of ics_escape
EscapeInit ==
    /\ escape_arg \in SeqsUpTo(EscapeAlphabet, MaxText)
    /\ text = escape_arg
    /\ step = 0
    /\ escaped = Unset
    /\ line = <<>> /\ encoded = <<>> /\ split_at = 0
    /\ result = <<>> /\ folded = Unset /\ fpc = "idle"
    /\ pc = "idle" /\ month_num = 1 /\ blocks = <<>> /\ events = <<>>
    /\ uids = <<>> /\ ics_content = Unset /\ file = NotWritten /\ error = ""

SpecEscape == EscapeInit /\ [][EscapeNext]_vars

----------------------------------------------------------------------------
(* Reading a folded line                                                   *)

\* Start positions of the occurrences of pat in s
Occurrences(s, pat) ==
    {i \in 1..(Len(s) - Len(pat) + 1) : SubSeq(s, i, i + Len(pat) - 1) = pat}

\* s.split(pat)
RECURSIVE Split(_, _)
Split(s, pat) ==
    LET occ == Occurrences(s, pat) IN
    IF occ = {} THEN <<s>>
    ELSE LET i == Min(occ) IN
         <<SubSeq(s, 1, i - 1)>> \o Split(SubSeq(s, i + Len(pat), Len(s)), pat)

\* The physical lines of a text: its segments between CRLF breaks
PhysicalLines(s) == Split(s, CRLF)

\* RFC 5545 unfolding: every CRLF followed by a space is removed
Unfold(s) == Concat(Split(s, FoldMarker))

Octets(s) == Len(EncodeUtf8(s))

----------------------------------------------------------------------------
(* Claims on ics_escape                                                    *)

Count(x, seq) == Cardinality({i \in DOMAIN seq : seq[i] = x})

\* One pass over the text, left to right, each character mapped alone
OnePassEscape(s) ==
    Concat([i \in 1..Len(s) |->
        IF s[i] = 92 THEN <<92, 92>>
        ELSE IF s[i] = 59 THEN <<92, 59>>
        ELSE IF s[i] = 44 THEN <<92, 44>>
        ELSE IF s[i] = 10 THEN <<92, 110>>
        ELSE <<s[i]>>])

\* C3: the four ordered replacements of ics_escape give what a single
\* left-to-right pass gives that maps backslash to two backslashes, ";" to
\* backslash ";", "," to backslash ",", newline to backslash "n" and keeps
\* every other character; no backslash a later replacement introduces is
\* escaped again (the result has two backslashes per input backslash and
\* one per ";", "," and newline).
C3_EscapeIsOnePass ==
    escaped # Unset =>
        /\ escaped = OnePassEscape(escape_arg)
        /\ Count(92, escaped) = 2 * Count(92, escape_arg) + Count(59, escape_arg)
                                + Count(44, escape_arg) + Count(10, escape_arg)

\* ics_escape has returned for a text with a backslash right before a
\* comma, and a newline.
C3_Witness ==
    /\ escaped # Unset
    /\ step = 4
    /\ \E i \in 1..(Len(escape_arg) - 1) : escape_arg[i] = 92 /\ escape_arg[i + 1] = 44
    /\ Count(10, escape_arg) > 0

----------------------------------------------------------------------------
(* Claims on main and load_events                                          *)

\* A block that lacks a required field, or whose month or day is no int
BadBlock(b) ==
    \/ ~(RequiredKeys \subseteq DOMAIN b)
    \/ b["month"].t # "int"
    \/ b["day"].t # "int"

\* C4: the output file is written only after all twelve sources have been
\* read, every block parsed and every VEVENT built; when a source is
\* missing, a block lacks a required field, or a month or day is no int,
\* the run fails and the file is neither written nor truncated.
C4_NoOutputOnFailure ==
    /\ file # NotWritten =>
        /\ pc = "done"
        /\ month_num = LastMonth + 1
        /\ error = ""
        /\ Len(events) = Len(blocks)
        /\ Len(uids) = Len(events)
        /\ \A i \in DOMAIN blocks : ~BadBlock(blocks[i])
        /\ file = ics_content
    /\ (\E i \in DOMAIN blocks : BadBlock(blocks[i])) =>
        pc \in {"load", "sort", "summary", "failed"}
    /\ (\E i \in DOMAIN blocks : ~(RequiredKeys \subseteq DOMAIN blocks[i])) =>
        pc = "failed"
    /\ error = "FileNotFoundError" => pc = "failed"
    /\ pc = "failed" <=> error # ""
    /\ pc = "failed" => file = NotWritten

\* A block without a required field ended the run after other sources and
\* blocks had been read.
C4_Witness ==
    /\ pc = "failed"
    /\ error = "KeyError"
    /\ month_num > 1
    /\ Len(blocks) >= 2
    /\ file = NotWritten

\* load_events has returned to main
AfterLoad == pc \in {"summary", "build", "write", "done"}

ParsedBlocks == [i \in DOMAIN blocks |-> parse_event(blocks[i])]

IsPermutation(a, b) ==
    /\ Len(a) = Len(b)
    /\ \A i \in DOMAIN a : Count(a[i], a) = Count(a[i], b)

\* The key the list is to be ordered by
EventKey(e) == <<e.month, e.day, e.name>>

Keys(es) == [i \in DOMAIN es |-> EventKey(es[i])]

Ascending(es) ==
    \A i \in 1..(Len(es) - 1) : ~KeyLess(EventKey(es[i + 1]), EventKey(es[i]))

Reverse(seq) == [i \in DOMAIN seq |-> seq[Len(seq) + 1 - i]]

\* C5: the list load_events returns is a permutation of the records of
\* all non-empty blocks of all sources (duplicates kept), ascending by
\* (month, day, name), whatever the order the blocks were read in (the
\* blocks read in the opposite order give the same sequence of keys).
C5_LoadedSortedPermutation ==
    AfterLoad =>
        /\ IsPermutation(events, ParsedBlocks)
        /\ Ascending(events)
        /\ Keys(SortEvents(Reverse(ParsedBlocks))) = Keys(events)

\* The blocks (3, 1, "B"), (1, 5, "Z"), (1, 5, "A") were read in this order
\* and the returned list is in another order.
C5_Witness ==
    /\ AfterLoad
    /\ blocks = <<DocB, DocZ, DocA>>
    /\ events # ParsedBlocks
    /\ events[1].name = DocA["name"]

\* C6: every record of the list the loader returns has a (month, day) that
\* is a date of the reference leap year, so that build_vevent's date
\* construction does not fail on it.
C6_LoadedDatesValid ==
    AfterLoad =>
        \A i \in DOMAIN events :
            /\ IsInt(events[i].month)
            /\ IsInt(events[i].day)
            /\ ValidDate(REFERENCE_YEAR, events[i].month.v, events[i].day.v)

\* main has built the calendar text
Built == pc \in {"write", "done"}

\* C7: the second part of the rendered DESCRIPTION is the trimmed
\* explanation_short whenever explanation_short is present, whatever text
\* it holds, and the trimmed explanation only when it is absent.
C7_ShortReplacesExplanation ==
    Built =>
        \A i \in DOMAIN events :
            LET e == events[i]
                second == Split(description(e), DESCRIPTION_SEP)[2]
            IN second = ics_escape(Strip(IF e.explanation_short # None
                                         THEN e.explanation_short.v
                                         ELSE e.explanation.v))

\* C8: build_ics returns the CRLF-join of the six header lines, one VEVENT
\* block per record in order, and END:VCALENDAR, followed by one CRLF and
\* nothing else, for every list of records, the empty list included.
C8_CalendarIsJoinOfSegments ==
    Built =>
        ics_content =
            Join(HeaderLines \o [i \in DOMAIN events |-> build_vevent(events[i])]
                 \o <<END_VCALENDAR>>, CRLF) \o CRLF

\* C9: generate_uid is a function of (month, day, name): the records of a
\* run that are equal on that triple got the same UID, whatever their
\* other fields.
C9_UidDependsOnTripleOnly ==
    Built =>
        /\ Len(uids) = Len(events)
        /\ \A i, j \in DOMAIN events :
            EventKey(events[i]) = EventKey(events[j]) => uids[i] = uids[j]

\* Two records equal on (month, day, name) and different in message were
\* both given a UID.
C9_Witness ==
    /\ Built
    /\ \E i, j \in DOMAIN events :
        /\ EventKey(events[i]) = EventKey(events[j])
        /\ events[i].message # events[j].message
        /\ Len(uids[i]) = 32

----------------------------------------------------------------------------
(* Claims on ics_fold_line                                                 *)

\* C1: every physical line of ics_fold_line's output, the leading space of
\* a continuation line counted, is at most 75 octets long.
C1_EveryPhysicalLineWithinLimit ==
    fpc = "done" =>
        \A i \in DOMAIN PhysicalLines(folded) :
            Octets(PhysicalLines(folded)[i]) <= FoldLimit

\* What the code does keep: 75 octets of content per physical line, so a
\* continuation line has up to 76 octets with its leading space.
FoldContentWithinLimit ==
    fpc = "done" =>
        /\ \A i \in DOMAIN result : Octets(result[i]) <= FoldLimit
        /\ \A i \in DOMAIN PhysicalLines(folded) :
            Octets(PhysicalLines(folded)[i]) <= FoldLimit + (IF i = 1 THEN 0 ELSE 1)

\* C2: for a line of more than 75 octets, every cut falls on a code-point
\* boundary (each chunk and the remaining buffer decode, and the chunks
\* are the line's code points in order), and removing the CRLF+space fold
\* markers from the output gives the line back.
C2_FoldRoundTrip ==
    /\ fpc # "UnicodeDecodeError"
    /\ fpc = "while" =>
        /\ DecodeUtf8(encoded) # DecodeError
        /\ Concat(result) \o DecodeUtf8(encoded) = line
    /\ (fpc = "done" /\ Octets(line) > FoldLimit) =>
        /\ Concat(result) = line
        /\ Len(PhysicalLines(folded)) = Len(result)
        /\ Unfold(folded) = line

\* A 4-octet character lay across offset 75: the first chunk has 72 octets,
\* and the line was cut at least twice.
C2_Witness ==
    /\ fpc = "done"
    /\ Len(result) >= 3
    /\ Octets(result[1]) = FoldLimit - 3
    /\ \E i \in DOMAIN result : \E j \in DOMAIN result[i] : result[i][j] >= 65536

\* A measure of the work left in ics_fold_line: the octets still to be
\* cut, then the position inside the current iteration.
FoldRank ==
    (IF fpc = "start" THEN Octets(line) + 1 ELSE Len(encoded)) * (FoldLimit + 3)
    + (IF fpc = "while" THEN FoldLimit + 2
       ELSE IF fpc = "retreat" THEN split_at + 1
       ELSE 0)

\* C10: the folding loop terminates: while the inner loop runs split_at is
\* between 72 and 75 and the index it reads is inside the buffer, each cut
\* removes a non-empty chunk so that the buffer strictly shrinks, no step
\* raises or spins, and every step lowers the natural-valued measure
\* FoldRank (in "start", "while" and "retreat" a step is always possible:
\* the guards of the actions there are exhaustive).
C10_FoldTerminates ==
    [][/\ (fpc = "retreat" =>
            /\ split_at \in (FoldLimit - 3)..FoldLimit
            /\ IndexInside(encoded, split_at))
       /\ fpc' \in {"while", "retreat", "done"}
       /\ (fpc = "retreat" /\ fpc' # "retreat") =>
            /\ fpc' = "while"
            /\ Len(result') = Len(result) + 1
            /\ result'[Len(result')] # <<>>
            /\ Len(encoded') = Len(encoded) - split_at
            /\ Len(encoded') < Len(encoded)
       /\ FoldRank' < FoldRank
       /\ FoldRank' >= 0]_vars

\* The loop ran at least twice and the inner loop retreated three times.
C10_Witness ==
    /\ fpc = "retreat"
    /\ split_at = FoldLimit - 3
    /\ Len(result) >= 1
    /\ ~RetreatCond(encoded, split_at)

====
